---- MODULE Spec2Model ----
(***************************************************************************)
(* A model of geo-types' LineString<T> (src/geo-types/src/line_string.rs): *)
(* the coordinate vector, its constructors, indexed access, close() and    *)
(* is_closed(), the lazy views (points_iter, lines, triangles, into_iter)  *)
(* and the rstar envelope.                                                 *)
(*                                                                         *)
(* The scalar type T is a float (f32/f64 in every doc example): a scalar   *)
(* is a small integer or NaN, and `==` / `<` on scalars are the float      *)
(* comparisons, under which NaN is equal to nothing and ordered with       *)
(* nothing.  Option<V> is a sequence of length 0 (None) or 1 (Some(v)).    *)
(***************************************************************************)
EXTENDS Integers, Sequences, FiniteSets, TLC

VARIABLES coords, input, pc, iter, last

vars == <<coords, input, pc, iter, last>>

\* ---------------------------------------------------------------- bounds
\* Longest input sequence a LineString is constructed from.
MaxLen == 3

\* ------------------------------------------------------------ scalars (T)
\* The float NaN, as a value outside the ordered range of the model.
NaN == 99
\* Bounded::min_value() and Bounded::max_value() of T.
MinValue == -8
MaxValue == 8

Scalars == {0, 1, NaN}

\* `a == b` on T.
FEq(a, b) == a # NaN /\ b # NaN /\ a = b
\* `a < b` and `a > b` on T.
FLt(a, b) == a # NaN /\ b # NaN /\ a < b
FGt(a, b) == FLt(b, a)

\* --------------------------------------------------------- value types
None == <<>>
Some(v) == <<v>>

Coordinate(x, y) == [x |-> x, y |-> y]

\* The coordinate-convertible inputs: (T, T) tuples.
Pairs == {<<0, 0>>, <<1, 0>>, <<0, 1>>, <<NaN, 0>>, <<0, NaN>>}

\* impl From<(T, T)> for Coordinate<T>
ToCoord(t) == Coordinate(t[1], t[2])

Coords == {ToCoord(t) : t \in Pairs}

\* Coordinate's derived PartialEq: field by field, with T's ==.
CoordEq(a, b) == FEq(a.x, b.x) /\ FEq(a.y, b.y)

\* Option<&Coordinate<T>> == Option<&Coordinate<T>>
OptEq(a, b) ==
    \/ a = None /\ b = None
    \/ a # None /\ b # None /\ CoordEq(a[1], b[1])

\* Point(c), Point::new(x, y): the tuple struct around one Coordinate.
Point(c) == <<c>>
PointNew(x, y) == Point(Coordinate(x, y))

\* Line::new(start, end) and Triangle(a, b, c).
Line(s, e) == [start |-> s, end |-> e]
Triangle(a, b, c) == <<a, b, c>>

\* Capacity of the model's vector: one push beyond the longest input.
Cap == MaxLen + 1

SeqsUpTo(S, n) == UNION {[1..k -> S] : k \in 0..n}

\* ------------------------------------------------------------- slices
\* slice::first() and slice::last()
First(v) == IF Len(v) = 0 THEN None ELSE Some(v[1])
Last(v) == IF Len(v) = 0 THEN None ELSE Some(v[Len(v)])

\* ------------------------------------------------------- constructors
\* Mutant of MapCollect: an item equal to the one pushed last is skipped.
RECURSIVE MapCollect_Dedup(_, _)
MapCollect_Dedup(it, acc) ==
    IF Len(it) = 0 THEN acc
    ELSE MapCollect_Dedup(Tail(it),
            IF Len(acc) > 0 /\ acc[Len(acc)] = ToCoord(Head(it))
            THEN acc ELSE Append(acc, ToCoord(Head(it))))

\* iter.map(|c| c.into()).collect(): consumes the iterator front to back,
\* pushing each converted item.
RECURSIVE MapCollect(_, _)
MapCollect(it, acc) ==
    IF Len(it) = 0 THEN acc
    ELSE MapCollect(Tail(it), Append(acc, ToCoord(Head(it))))

\* LineString(vec): the tuple struct around the vector as given.
LineStringNew(v) == v

\* impl From<Vec<IC>> for LineString<T>
FromVec(v) == LineStringNew(MapCollect(v, <<>>))

\* impl FromIterator<IC> for LineString<T>
FromIter(it) == LineStringNew(MapCollect(it, <<>>))

Ctors == {"new", "from_vec", "from_iter"}

Construct(how, in) ==
    CASE how = "new" -> LineStringNew([i \in 1..Len(in) |-> ToCoord(in[i])])
      [] how = "from_vec" -> FromVec(in)
      [] how = "from_iter" -> FromIter(in)

\* ------------------------------------------------------ LineString<T>
\* LineString::num_coords
num_coords(ls) == Len(ls)

\* Mutant of is_closed: the empty LineString is not closed.
is_closed_NonEmpty(ls) == Len(ls) > 0 /\ OptEq(First(ls), Last(ls))

\* Mutant of is_closed: fewer than two coordinates are closed without a
\* comparison.
is_closed_ShortCircuit(ls) == Len(ls) <= 1 \/ OptEq(First(ls), Last(ls))

\* LineString::is_closed
is_closed(ls) == OptEq(First(ls), Last(ls))

Rec(op, arg, pre, res) == [op |-> op, arg |-> arg, pre |-> pre, res |-> res]

NoIter == [kind |-> "none"]

\* The construction input is remembered for as long as the coordinates are
\* the constructed ones.
Keep(new) == IF new = coords THEN input ELSE None

Init ==
    /\ \E in \in SeqsUpTo(Pairs, MaxLen), how \in Ctors :
          /\ coords = Construct(how, in)
          /\ input = Some(in)
          /\ last = Rec(how, in, <<>>, <<>>)
    /\ pc = "idle"
    /\ iter = NoIter

\* LineString::is_closed, called
IsClosed ==
    /\ pc = "idle"
    /\ last' = Rec("is_closed", <<>>, coords, is_closed(coords))
    /\ UNCHANGED <<coords, input, pc, iter>>

\* LineString::num_coords, called
NumCoords ==
    /\ pc = "idle"
    /\ last' = Rec("num_coords", <<>>, coords, num_coords(coords))
    /\ UNCHANGED <<coords, input, pc, iter>>

\* Vec's Index/IndexMut: the element at a 0-based position, None where the
\* position is out of range (the access panics).
VecIndex(v, i) == IF i < Len(v) THEN Some(v[i + 1]) ELSE None

\* Vec::push
Push(v, c) == Append(v, c)

Ok(v) == [panic |-> FALSE, v |-> v]
Panic(v) == [panic |-> TRUE, v |-> v]

\* Mutant of close: the first coordinate is pushed whether closed or not.
close_NoCheck(ls) ==
    IF VecIndex(ls, 0) = None THEN Ok(ls) ELSE Ok(Push(ls, VecIndex(ls, 0)[1]))

\* Mutant of close: the last coordinate is pushed, not the first.
close_PushLast(ls) ==
    IF ~is_closed(ls)
    THEN IF VecIndex(ls, 0) = None
         THEN Panic(ls)
         ELSE Ok(Push(ls, VecIndex(ls, Len(ls) - 1)[1]))
    ELSE Ok(ls)

\* LineString::close: the vector it leaves, or the panic of self.0[0].
close(ls) ==
    IF ~is_closed(ls)
    THEN IF VecIndex(ls, 0) = None
         THEN Panic(ls)
         ELSE Ok(Push(ls, VecIndex(ls, 0)[1]))
    ELSE Ok(ls)

\* LineString::close, called.  last.arg counts the closes in a row (2 stands
\* for two or more) and last.res is the vector the first of them left.
Close ==
    /\ pc = "idle"
    /\ is_closed(coords) \/ Len(coords) < Cap
    /\ LET r == close(coords)
           again == last.op = "close"
       IN /\ coords' = r.v
          /\ pc' = IF r.panic THEN "panicked" ELSE "idle"
          /\ last' = Rec("close", IF again THEN 2 ELSE 1, coords,
                         IF again THEN last.res ELSE r.v)
          /\ input' = Keep(r.v)
    /\ UNCHANGED iter

\* impl Index<usize> for LineString<T>, called with index i
Index(i) ==
    /\ pc = "idle"
    /\ LET r == VecIndex(coords, i)
       IN /\ pc' = IF r = None THEN "panicked" ELSE "idle"
          /\ last' = Rec("index", i, coords, r)
    /\ UNCHANGED <<coords, input, iter>>

\* impl IndexMut<usize> for LineString<T>, called as `ls[i] = c`
IndexMut(i, c) ==
    /\ pc = "idle"
    /\ LET r == VecIndex(coords, i)
           new == IF r = None THEN coords ELSE [coords EXCEPT ![i + 1] = c]
       IN /\ pc' = IF r = None THEN "panicked" ELSE "idle"
          /\ coords' = new
          /\ last' = Rec("index_mut", i, coords, r)
          /\ input' = Keep(new)
    /\ UNCHANGED iter

\* ------------------------------------------------------------ iterators
\* .map(|c| Point(*c)) on the Option a slice iterator yields.
MapPoint(o) == IF o = None THEN None ELSE Some(Point(o[1]))

\* slice::Iter over ls, as the 0-based positions [front, back) still to
\* yield: next() and next_back().
SliceNext(ls, it) ==
    IF it.front = it.back
    THEN [it |-> it, item |-> None]
    ELSE [it |-> [it EXCEPT !.front = @ + 1], item |-> Some(ls[it.front + 1])]

\* Mutant of SliceNextBack: the back end shrinks but the front element is
\* yielded.
SliceNextBack_Front(ls, it) ==
    IF it.front = it.back
    THEN [it |-> it, item |-> None]
    ELSE [it |-> [it EXCEPT !.back = @ - 1], item |-> Some(ls[it.front + 1])]

SliceNextBack(ls, it) ==
    IF it.front = it.back
    THEN [it |-> it, item |-> None]
    ELSE [it |-> [it EXCEPT !.back = @ - 1], item |-> Some(ls[it.back])]

\* PointsIter::next and PointsIter::next_back
PointsIterNext(ls, it) ==
    LET r == SliceNext(ls, it) IN [it |-> r.it, item |-> MapPoint(r.item)]

PointsIterNextBack(ls, it) ==
    LET r == SliceNextBack(ls, it) IN [it |-> r.it, item |-> MapPoint(r.item)]

\* LineString::points_iter, called: PointsIter(self.0.iter())
PointsIter ==
    /\ pc = "idle"
    /\ pc' = "points"
    /\ iter' = [kind |-> "points", front |-> 0, back |-> Len(coords),
                fwd |-> <<>>, bwd |-> <<>>, res |-> None, called |-> "new"]
    /\ last' = Rec("points_iter", <<>>, coords, <<>>)
    /\ UNCHANGED <<coords, input>>

\* One next() on the Point view: fwd collects what the forward end yields.
PointsNext ==
    /\ pc = "points"
    /\ LET r == PointsIterNext(coords, iter)
       IN iter' = [r.it EXCEPT !.fwd = @ \o r.item, !.res = r.item,
                               !.called = "next"]
    /\ UNCHANGED <<coords, input, pc, last>>

\* One next_back() on the Point view: bwd collects what the back end yields.
PointsNextBack ==
    /\ pc = "points"
    /\ LET r == PointsIterNextBack(coords, iter)
       IN iter' = [r.it EXCEPT !.bwd = @ \o r.item, !.res = r.item,
                               !.called = "next_back"]
    /\ UNCHANGED <<coords, input, pc, last>>

\* LineString::into_points, called: consumes the LineString.
into_points(ls) == [i \in 1..Len(ls) |-> Point(ls[i])]

IntoPoints ==
    /\ pc = "idle"
    /\ pc' = "gone"
    /\ last' = Rec("into_points", <<>>, coords, into_points(coords))
    /\ UNCHANGED <<coords, input, iter>>

\* Mutant of WindowsNext: the slice advances by a whole window.
WindowsNext_Chunks(v, size) ==
    IF size > Len(v)
    THEN [v |-> v, item |-> None]
    ELSE [v |-> SubSeq(v, size + 1, Len(v)), item |-> Some(SubSeq(v, 1, size))]

\* slice::Windows { v, size }: next() and the exact len() of its size_hint.
WindowsNext(v, size) ==
    IF size > Len(v)
    THEN [v |-> v, item |-> None]
    ELSE [v |-> Tail(v), item |-> Some(SubSeq(v, 1, size))]

WindowsLen(v, size) == IF size > Len(v) THEN 0 ELSE Len(v) - size + 1

\* slice::get_unchecked: the element, or any value at all where the position
\* is outside the slice (undefined behaviour).
GetUnchecked(w, i) == IF i < Len(w) THEN {w[i + 1]} ELSE Coords

\* Mutant of LineOfWindow: the Line runs from the window's end to its start.
LineOfWindow_Swapped(w) ==
    {Line(b, a) : a \in GetUnchecked(w, 0), b \in GetUnchecked(w, 1)}

\* The closure of lines(): the Line of a window.
LineOfWindow(w) ==
    {Line(a, b) : a \in GetUnchecked(w, 0), b \in GetUnchecked(w, 1)}

\* The closure of triangles(): the Triangle of a window.
TriangleOfWindow(w) ==
    UNION {{Triangle(a, b, c) : a \in GetUnchecked(w, 0), b \in GetUnchecked(w, 1)} :
              c \in GetUnchecked(w, 2)}

WindowsIter(kind, size) ==
    [kind |-> kind, rem |-> coords, out |-> <<>>, res |-> None,
     len0 |-> WindowsLen(coords, size), called |-> "new"]

\* LineString::lines, called: self.0.windows(2).map(..); len0 is the len()
\* the iterator reports before it is advanced.
Lines ==
    /\ pc = "idle"
    /\ pc' = "lines"
    /\ iter' = WindowsIter("lines", 2)
    /\ last' = Rec("lines", <<>>, coords, <<>>)
    /\ UNCHANGED <<coords, input>>

\* One next() on the iterator of lines().
LinesNext ==
    /\ pc = "lines"
    /\ LET r == WindowsNext(iter.rem, 2)
       IN \E item \in IF r.item = None THEN {None}
                      ELSE {Some(l) : l \in LineOfWindow(r.item[1])} :
             iter' = [iter EXCEPT !.rem = r.v, !.out = @ \o item,
                                  !.res = item, !.called = "next"]
    /\ UNCHANGED <<coords, input, pc, last>>

\* LineString::triangles, called: self.0.windows(3).map(..)
Triangles ==
    /\ pc = "idle"
    /\ pc' = "triangles"
    /\ iter' = WindowsIter("triangles", 3)
    /\ last' = Rec("triangles", <<>>, coords, <<>>)
    /\ UNCHANGED <<coords, input>>

\* One next() on the iterator of triangles().
TrianglesNext ==
    /\ pc = "triangles"
    /\ LET r == WindowsNext(iter.rem, 3)
       IN \E item \in IF r.item = None THEN {None}
                      ELSE {Some(t) : t \in TriangleOfWindow(r.item[1])} :
             iter' = [iter EXCEPT !.rem = r.v, !.out = @ \o item,
                                  !.res = item, !.called = "next"]
    /\ UNCHANGED <<coords, input, pc, last>>

\* vec::IntoIter::next: the front element, and the rest.
VecIntoIterNext(v) ==
    IF Len(v) = 0
    THEN [v |-> v, item |-> None]
    ELSE [v |-> Tail(v), item |-> Some(Head(v))]

\* impl IntoIterator for LineString<T>, called: the vector moves into the
\* iterator.
IntoIter ==
    /\ pc = "idle"
    /\ pc' = "into_iter"
    /\ iter' = [kind |-> "into_iter", rem |-> coords, out |-> <<>>,
                res |-> None, called |-> "new"]
    /\ last' = Rec("into_iter", <<>>, coords, <<>>)
    /\ UNCHANGED <<coords, input>>

\* One next() on the consuming iterator.
IntoIterNext ==
    /\ pc = "into_iter"
    /\ LET r == VecIntoIterNext(iter.rem)
       IN iter' = [iter EXCEPT !.rem = r.v, !.out = @ \o r.item,
                               !.res = r.item, !.called = "next"]
    /\ UNCHANGED <<coords, input, pc, last>>

\* A borrowing view goes out of scope: the LineString is usable again.
DropIter ==
    /\ pc \in {"points", "lines", "triangles"}
    /\ pc' = "idle"
    /\ iter' = NoIter
    /\ UNCHANGED <<coords, input, last>>

\* ------------------------------------------------------------- envelope
\* The least and the greatest of a nonempty sequence of scalars, taken in
\* order with T's < and >.
RECURSIVE MinOver(_, _)
MinOver(xs, m) ==
    IF Len(xs) = 0 THEN m
    ELSE MinOver(Tail(xs), IF FLt(Head(xs), m) THEN Head(xs) ELSE m)

RECURSIVE MaxOver(_, _)
MaxOver(xs, m) ==
    IF Len(xs) = 0 THEN m
    ELSE MaxOver(Tail(xs), IF FGt(Head(xs), m) THEN Head(xs) ELSE m)

Xs(ls) == [i \in 1..Len(ls) |-> ls[i].x]
Ys(ls) == [i \in 1..Len(ls) |-> ls[i].y]

\* private_utils::line_string_bounding_rect: None for an empty LineString,
\* else the Rect from (min x, min y) to (max x, max y).
line_string_bounding_rect(ls) ==
    IF Len(ls) = 0 THEN None
    ELSE Some([min |-> Coordinate(MinOver(Tail(Xs(ls)), ls[1].x),
                                  MinOver(Tail(Ys(ls)), ls[1].y)),
               max |-> Coordinate(MaxOver(Tail(Xs(ls)), ls[1].x),
                                  MaxOver(Tail(Ys(ls)), ls[1].y))])

\* rstar's AABB::from_corners(p1, p2): lower is the component-wise minimum
\* of the two points, upper the component-wise maximum.
MinInline(a, b) == IF FLt(a, b) THEN a ELSE b
MaxInline(a, b) == IF FGt(a, b) THEN a ELSE b

FromCorners(p1, p2) ==
    [lower |-> PointNew(MinInline(p1[1].x, p2[1].x), MinInline(p1[1].y, p2[1].y)),
     upper |-> PointNew(MaxInline(p1[1].x, p2[1].x), MaxInline(p1[1].y, p2[1].y))]

\* Mutant of envelope: both corners are taken from the Rect's minimum.
envelope_MinOnly(ls) ==
    LET bounding_rect == line_string_bounding_rect(ls)
    IN IF bounding_rect = None
       THEN FromCorners(PointNew(MinValue, MinValue), PointNew(MaxValue, MaxValue))
       ELSE LET b == bounding_rect[1]
            IN FromCorners(PointNew(b.min.x, b.min.y), PointNew(b.min.x, b.min.y))

\* RTreeObject::envelope for LineString<T>
envelope(ls) ==
    LET bounding_rect == line_string_bounding_rect(ls)
    IN IF bounding_rect = None
       THEN FromCorners(PointNew(MinValue, MinValue), PointNew(MaxValue, MaxValue))
       ELSE LET b == bounding_rect[1]
            IN FromCorners(PointNew(b.min.x, b.min.y), PointNew(b.max.x, b.max.y))

\* RTreeObject::envelope, called
Envelope ==
    /\ pc = "idle"
    /\ last' = Rec("envelope", <<>>, coords, envelope(coords))
    /\ UNCHANGED <<coords, input, pc, iter>>

Next ==
    \/ IsClosed
    \/ NumCoords
    \/ Close
    \/ \E i \in 0..Cap : Index(i)
    \/ \E i \in 0..Cap, c \in Coords : IndexMut(i, c)
    \/ PointsIter
    \/ PointsNext
    \/ PointsNextBack
    \/ IntoPoints
    \/ Lines
    \/ LinesNext
    \/ Triangles
    \/ TrianglesNext
    \/ IntoIter
    \/ IntoIterNext
    \/ DropIter
    \/ Envelope

Spec == Init /\ [][Next]_vars

\* ------------------------------------------------------------ properties
NoNaN(c) == c.x # NaN /\ c.y # NaN

Max0(n) == IF n < 0 THEN 0 ELSE n

\* ---- C1 ---------------------------------------------------------------
\* C1 as stated: for every Path, the coordinates after two close() calls in
\* a row are the coordinates after the first of them.
C1_Original ==
    (pc = "idle" /\ last.op = "close" /\ last.arg = 2) => coords = last.res

\* C1, amended: close() is idempotent on every Path that is empty or whose
\* coordinate at position 0 has no NaN component: after two close() calls
\* in a row the coordinates are those the first call left.
C1_CloseIdempotent ==
    (/\ pc = "idle" /\ last.op = "close" /\ last.arg = 2
     /\ (Len(last.res) = 0 \/ NoNaN(last.res[1])))
        => coords = last.res

\* A second close() in a row on a Path that the first close() had to extend.
C1_Witness ==
    /\ pc = "idle" /\ last.op = "close" /\ last.arg = 2
    /\ Len(last.res) >= 3 /\ NoNaN(last.res[1])
    /\ last.res[Len(last.res) - 1] # last.res[1]

\* ---- C2 ---------------------------------------------------------------
\* C2: close() on a Path for which is_closed() is true (the empty Path
\* included) leaves the coordinates unchanged; otherwise the result is the
\* old sequence followed by one copy of its coordinate at position 0.  In
\* every case the length grows by at most 1 and the old coordinates keep
\* their values and positions.
C2_CloseEffect ==
    (pc = "idle" /\ last.op = "close") =>
        LET old == last.pre
            wasClosed == Len(old) = 0 \/ CoordEq(old[1], old[Len(old)])
        IN /\ wasClosed = is_closed(old)
           /\ wasClosed => coords = old
           /\ ~wasClosed => coords = old \o <<old[1]>>
           /\ Len(coords) <= Len(old) + 1
           /\ \A k \in 1..Len(old) : k <= Len(coords) /\ coords[k] = old[k]

\* close() has appended to an open Path of two or more coordinates.
C2_Witness ==
    /\ pc = "idle" /\ last.op = "close"
    /\ Len(last.pre) >= 2
    /\ Len(coords) = Len(last.pre) + 1

\* ---- C3 ---------------------------------------------------------------
\* C3 as stated: is_closed() is true iff the Path is empty or its
\* coordinate at position 0 is its coordinate at the last position, so that
\* every Path of length 1 is reported closed.
C3_Original ==
    last.op = "is_closed" =>
        (last.res <=> (Len(coords) = 0 \/ coords[1] = coords[Len(coords)]))

\* C3, amended: is_closed() is true iff the Path is empty or its coordinate
\* at position 0 equals its coordinate at the last position under the
\* scalar type's ==, for which a NaN component equals nothing: a Path of
\* length 1 is reported closed iff its coordinate has no NaN component, and
\* a Path whose two end coordinates are the same NaN-free value is closed
\* without close().
C3_IsClosedIff ==
    last.op = "is_closed" =>
        LET n == Len(coords)
        IN /\ last.res <=>
                (n = 0 \/ (coords[1] = coords[n] /\ NoNaN(coords[1])))
           /\ n = 1 => (last.res <=> NoNaN(coords[1]))

\* is_closed() has answered true on the Path [(0,0), (1,0), (0,0)], and no
\* close() made it so.
C3_Witness ==
    /\ last.op = "is_closed" /\ last.res
    /\ coords = <<Coordinate(0, 0), Coordinate(1, 0), Coordinate(0, 0)>>
    /\ input = Some(<<<<0, 0>>, <<1, 0>>, <<0, 0>>>>)

\* ---- C7 ---------------------------------------------------------------
\* C7: an indexed read or write at position i ends fatally exactly when
\* i >= num_coords(), and nothing else ends fatally on any Path: close()
\* never reads position 0 of an empty Path.
C7_OnlyIndexPanics ==
    /\ pc = "panicked" =>
          /\ last.op \in {"index", "index_mut"}
          /\ last.arg >= num_coords(coords)
    /\ (last.op \in {"index", "index_mut"} /\ last.arg >= num_coords(last.pre))
          => pc = "panicked"
    /\ (last.op = "close" /\ Len(last.pre) = 0) => (pc = "idle" /\ coords = <<>>)

\* An indexed write one past the end of a nonempty Path has ended fatally.
C7_Witness ==
    /\ pc = "panicked" /\ last.op = "index_mut"
    /\ Len(coords) >= 1 /\ last.arg = Len(coords)

\* close() has returned on the empty Path.
C7_WitnessCloseEmpty ==
    pc = "idle" /\ last.op = "close" /\ last.pre = <<>>

\* ---- C4 ---------------------------------------------------------------
\* C4: for a Path of length n, lines() yields exactly max(0, n-1) segments,
\* reports that count as its exact size before anything is consumed, and
\* its k-th segment is (coord[k], coord[k+1]), in increasing k; for n < 2 it
\* yields nothing.
C4_LinesWindows ==
    pc = "lines" =>
        LET n == num_coords(coords)
            want == Max0(n - 1)
        IN /\ iter.len0 = want
           /\ Len(iter.out) <= want
           /\ \A k \in 1..Len(iter.out) :
                 iter.out[k] = Line(coords[k], coords[k + 1])
           /\ (iter.called = "next" /\ iter.res = None) => Len(iter.out) = want
           /\ (iter.called = "next" /\ iter.res # None) =>
                 iter.res = Some(iter.out[Len(iter.out)])

\* lines() has been run to its end over a Path with three or more segments.
C4_Witness ==
    /\ pc = "lines" /\ iter.called = "next" /\ iter.res = None
    /\ Len(iter.out) >= 3

\* ---- C5 ---------------------------------------------------------------
\* C5: for a Path of length n, triangles() yields exactly max(0, n-2)
\* triangles, reports that count as its exact size, and its k-th triangle
\* is (coord[k], coord[k+1], coord[k+2]), in increasing k; for n < 3 it
\* yields nothing.
C5_TrianglesWindows ==
    pc = "triangles" =>
        LET n == num_coords(coords)
            want == Max0(n - 2)
        IN /\ iter.len0 = want
           /\ Len(iter.out) <= want
           /\ \A k \in 1..Len(iter.out) :
                 iter.out[k] = Triangle(coords[k], coords[k + 1], coords[k + 2])
           /\ (iter.called = "next" /\ iter.res = None) => Len(iter.out) = want
           /\ (iter.called = "next" /\ iter.res # None) =>
                 iter.res = Some(iter.out[Len(iter.out)])

\* triangles() has been run to its end over a Path with two or more triples.
C5_Witness ==
    /\ pc = "triangles" /\ iter.called = "next" /\ iter.res = None
    /\ Len(iter.out) >= 2

\* ---- C6 ---------------------------------------------------------------
\* C6: the three constructions give the same Path for the same input, and
\* reading the constructed Path back (num_coords(), indexing, consuming
\* iteration) gives the input: same length, same order, duplicates kept.
C6_ConstructRoundTrip ==
    input # None =>
        LET in == input[1]
        IN /\ coords = Construct("new", in)
           /\ coords = FromVec(in)
           /\ coords = FromIter(in)
           /\ Len(coords) = Len(in)
           /\ \A k \in 1..Len(in) : <<coords[k].x, coords[k].y>> = in[k]
           /\ last.op = "num_coords" => last.res = Len(in)
           /\ (last.op = "index" /\ pc = "idle") =>
                 <<last.res[1].x, last.res[1].y>> = in[last.arg + 1]
           /\ pc = "into_iter" =>
                 /\ Len(iter.out) <= Len(in)
                 /\ \A k \in 1..Len(iter.out) :
                       <<iter.out[k].x, iter.out[k].y>> = in[k]
                 /\ (iter.called = "next" /\ iter.res = None) =>
                       Len(iter.out) = Len(in)

\* A Path constructed from three values, two of them equal and adjacent, has
\* been read back to its end by the consuming iteration.
C6_Witness ==
    /\ input # None /\ pc = "into_iter"
    /\ iter.called = "next" /\ iter.res = None
    /\ Len(iter.out) = 3 /\ iter.out[1] = iter.out[2] /\ iter.out[3] # iter.out[1]

FLe(a, b) == FLt(a, b) \/ FEq(a, b)

\* The rectangle r is the minimal one that holds every coordinate of ls:
\* every coordinate lies within it and each of its four sides is attained.
MinimalRect(r, ls) ==
    LET lo == r.lower[1]
        hi == r.upper[1]
        I == 1..Len(ls)
    IN /\ \A k \in I : /\ FLe(lo.x, ls[k].x) /\ FLe(ls[k].x, hi.x)
                       /\ FLe(lo.y, ls[k].y) /\ FLe(ls[k].y, hi.y)
       /\ \E k \in I : ls[k].x = lo.x
       /\ \E k \in I : ls[k].y = lo.y
       /\ \E k \in I : ls[k].x = hi.x
       /\ \E k \in I : ls[k].y = hi.y

FullExtent ==
    [lower |-> Point(Coordinate(MinValue, MinValue)),
     upper |-> Point(Coordinate(MaxValue, MaxValue))]

\* C9 as stated: the envelope of every nonempty Path is the minimal
\* rectangle holding every coordinate, that of the empty Path is the full
\* extent of the scalar type, and the Path is not modified.
C9_Original ==
    last.op = "envelope" =>
        /\ coords = last.pre
        /\ Len(coords) = 0 => last.res = FullExtent
        /\ Len(coords) > 0 => MinimalRect(last.res, coords)

\* C9, amended: the envelope of a nonempty Path with no NaN component is
\* the minimal rectangle holding every coordinate, from (min x, min y) to
\* (max x, max y); that of the empty Path is the full extent of the scalar
\* type; the Path is not modified.
C9_Envelope ==
    last.op = "envelope" =>
        /\ coords = last.pre
        /\ Len(coords) = 0 => last.res = FullExtent
        /\ (Len(coords) > 0 /\ \A k \in 1..Len(coords) : NoNaN(coords[k]))
              => MinimalRect(last.res, coords)

\* The envelope of a NaN-free Path has been taken, and neither of its
\* corners is a coordinate of the Path.
C9_Witness ==
    /\ last.op = "envelope" /\ Len(coords) >= 2
    /\ \A k \in 1..Len(coords) :
          /\ NoNaN(coords[k])
          /\ last.res.lower # Point(coords[k])
          /\ last.res.upper # Point(coords[k])

====
